---------------------------- MODULE Spec2Model ----------------------------
(* Multi-tenant compliance sync: the durable orchestrator, its four        *)
(* activities and the SQL session-context helpers they share.              *)
(*                                                                         *)
(*   Spec      the orchestrator run (load -> fan-out -> join -> reindex),  *)
(*             each activity invocation run to completion in one step      *)
(*   SpecTask  two concurrently running activity invocations, one          *)
(*             statement at a time, sharing the store                      *)
(*   SpecSql   the sql_client session-context API on two connections,      *)
(*             called in any order                                         *)
(*   SpecScores  upsert_compliance_score called in any order on the        *)
(*             compliance_scores table                                     *)
(*   SpecGet   one raw-HTTP GET (_get) with its retries against a          *)
(*             scripted server                                             *)
(*   SpecPages one paginated raw-HTTP list fetch against a server of       *)
(*             linked pages, with the 404 fallback to the alternative      *)
(*   SpecFetch the four logical fetches of collect_compliance_data, typed  *)
(*             client first, raw HTTP as the fallback                      *)
(*   SpecNormalize  _normalize_assessment / _normalize_control on a        *)
(*             source dict                                                 *)
(*   SpecUpload  the batched upload loop of reindex_search                 *)
(*   SpecDays  get_secure_scores and its validation of days                *)
(*   SpecKv    concurrent calls of auth._get_kv_client                     *)
EXTENDS Integers, Sequences, FiniteSets, TLC

VARIABLES sq, run, store,
          orchPc, tenants, tasks, loadLog, reindexLog, results,
          scores, latest, lastUpsert,
          responses, req,
          pages, call,
          world, fetch,
          doc, norm, upload, scoreCall, kv

orchVars == <<orchPc, tenants, tasks, loadLog, reindexLog, results>>

\* compliance_scores table harness (SpecScores)
scoreVars == <<scores, latest, lastUpsert>>

\* The variables of the library-level harnesses; the orchestrator, the
\* activities and the session-context harness leave them alone.
\* one raw-HTTP GET against a scripted server (SpecGet)
getVars == <<responses, req>>

\* a paginated raw-HTTP fetch against a server of linked pages (SpecPages)
pageVars == <<pages, call>>

\* the fetch section of collect_compliance_data against what the typed
\* client and the raw-HTTP endpoints answer (SpecFetch)
fetchVars == <<world, fetch>>

\* the harnesses of the graph client, the fetch section and the score table
baseLibVars == <<scoreVars, getVars, pageVars, fetchVars>>

\* one call of a normalizer on a source dict (SpecNormalize)
normVars == <<doc, norm>>

\* the upload part of reindex_search.main (SpecUpload)
uploadVars == <<upload>>

\* one call of get_secure_scores (SpecDays)
daysVars == <<scoreCall>>

\* the module global _kv_client and the threads calling _get_kv_client (SpecKv)
kvVars == <<kv>>

\* the harnesses of single functions
utilVars == <<normVars, uploadVars, daysVars, kvVars>>

libVars == <<baseLibVars, utilVars>>

coreVars == <<sq, run, store, orchVars>>

\* ------------------------------------------------------------------------
\* Shared vocabulary
\* ------------------------------------------------------------------------

\* SQL NULL / Python None.
Null == "NULL"

\* The tenant ids of the registry.
TenantIds == {"A", "B"}

\* ------------------------------------------------------------------------
\* shared/sql_client.py : SESSION_CONTEXT helpers
\* ------------------------------------------------------------------------

\* SESSION_CONTEXT of a fresh connection: no key set, none read-only.
NoSession == [tenant_id |-> Null, is_admin |-> Null, read_only |-> {}]

\* EXEC sp_set_session_context @key, @value, @read_only = 1 :
\* a key already marked read-only cannot be set again on this connection
\* (the statement fails); otherwise the key is set and marked read-only.
SpSetSessionContext(sess, key, value) ==
    IF key \in sess.read_only
    THEN [ok |-> FALSE, sess |-> sess]
    ELSE [ok |-> TRUE,
          sess |-> [sess EXCEPT ![key] = value, !.read_only = @ \cup {key}]]

\* set_tenant_context: two statements, tenant_id first, then is_admin = 0.
\* The first statement that fails raises; what an earlier one set stays set.
SetTenantContext(sess, tenant_id) ==
    LET r1 == SpSetSessionContext(sess, "tenant_id", tenant_id)
    IN  IF ~r1.ok
        THEN [raised |-> TRUE, sess |-> sess]
        ELSE LET r2 == SpSetSessionContext(r1.sess, "is_admin", "0")
             IN  [raised |-> ~r2.ok, sess |-> r2.sess]

\* set_admin_context: one statement, is_admin = 1; tenant_id is not touched.
SetAdminContext(sess) ==
    LET r == SpSetSessionContext(sess, "is_admin", "1")
    IN  [raised |-> ~r.ok, sess |-> r.sess]

\* The two session attributes the row-level policy reads.
Attrs(sess) == [tenant_id |-> sess.tenant_id, is_admin |-> sess.is_admin]

\* Row-level security predicate of the store: a statement touching a row of
\* tenant `row_tenant` passes on an admin session or on the session bound to
\* that tenant; an unscoped session passes nowhere.
RlsAllows(sess, row_tenant) ==
    sess.is_admin = "1" \/ sess.tenant_id = row_tenant

\* Tables carrying the row-level policy. The registry table itself has none.
RlsTables == {"secure_scores", "control_scores", "benchmark_scores",
              "control_profiles", "compliance_scores", "assessments",
              "assessment_controls"}

\* ------------------------------------------------------------------------
\* functions/activities : one invocation of an activity, statement by statement
\* ------------------------------------------------------------------------

\* Largest number of loop items (snapshots, assessments, documents) one fetch
\* or read returns; the lists upserted in one call (profiles, category scores,
\* controls) are empty or not.
MaxItems == 1

FanoutKinds == {"collect_tenant_data", "collect_compliance_data"}
SqlKinds    == {"get_active_tenants", "reindex_search"}

\* The lists of active tenants the registry read can return: duplicate-free.
ActiveLists ==
    {l \in UNION {[1..k -> TenantIds] : k \in 0..Cardinality(TenantIds)} :
        \A i, j \in DOMAIN l : l[i] = l[j] => i = j}

\* What the outside world answers at one step: whether the step raises, and
\* the sizes / contents of what a fetch or read returns.
Inputs == [fault : BOOLEAN, n : 0..MaxItems, m : 0..1, active : ActiveLists]

\* The answers that matter at step `pc`: a step that fetches or reads nothing
\* is only told whether it raises.
InputsAt(pc) ==
    {x \in Inputs :
        /\ pc \notin {"fetch", "read"} => x.n = 0
        /\ pc \notin {"fetch", "fetch_controls"} => x.m = 0
        /\ pc # "read" => x.active = <<>>}

\* id: the connection object, Null before get_connection() has returned one.
\* assessed: the loop item of the last assessment upserted on the connection
\* (0: none yet); marks: the mark_tenant_synced calls committed on it.
NoConn == [id |-> Null, state |-> "none", session |-> NoSession, scopeCalls |-> 0,
           stmts |-> 0, unscoped |-> 0, closeCalls |-> 0, fetches |-> 0,
           assessed |-> 0, marks |-> 0]

NoResult == [tenant_id |-> Null, success |-> FALSE, error |-> Null, items |-> 0]

NoOut == [status |-> "running", result |-> NoResult, exc |-> Null,
          tenants |-> <<>>]

\* exc: the exception in flight while the finally block runs; thrown: the last
\* exception raised inside the try block (kept for the record of what happened).
\* id names the invocation.
Idle == [id |-> Null, kind |-> "idle", tenant |-> Null, pc |-> "idle", exc |-> Null,
         thrown |-> Null, conn |-> NoConn, todo |-> 0, items |-> 0, m |-> 0,
         out |-> NoOut]

\* The invocation as the host hands it to main(): fan-out activities start
\* before their try block, the SQL activities at get_connection().
StartInv(kind, tenant) ==
    [Idle EXCEPT !.kind = kind, !.tenant = tenant,
                 !.pc = IF kind \in FanoutKinds THEN "entry" ELSE "connect"]

Finished(inv) == inv.out.status # "running"

\* An exception's message; the model names it after the step that raised it.
Msg(pc) == pc

\* The exception leaves main(): the host sees the invocation fail.
Escape(inv, msg) ==
    [inv EXCEPT !.pc = "done", !.exc = Null,
                !.out = [NoOut EXCEPT !.status = "raised", !.exc = msg]]

Return(inv, result) ==
    [inv EXCEPT !.pc = "done", !.exc = Null,
                !.out = [NoOut EXCEPT !.status = "returned", !.result = result]]

\* A fan-out activity without its except clause: the exception leaves main().
HandlerReraises(inv, msg) == Escape(inv, msg)

\* A handler that reports a fixed text instead of str(exc).
HandlerGenericError(inv, msg) ==
    IF inv.kind \in FanoutKinds
    THEN Return(inv, [tenant_id |-> inv.tenant, success |-> FALSE,
                      error |-> "sync failed", items |-> 0])
    ELSE Escape(inv, msg)

\* `except Exception as exc: return {"tenant_id", "success": False, "error": str(exc)}`
\* in the fan-out activities; get_active_tenants and reindex_search have no handler.
Handler(inv, msg) ==
    IF inv.kind \in FanoutKinds
    THEN Return(inv, [tenant_id |-> inv.tenant, success |-> FALSE,
                      error |-> msg, items |-> 0])
    ELSE Escape(inv, msg)

\* A body without the finally block: a raise goes straight to the handler.
ThrowWithoutFinally(inv, msg) == Handler([inv EXCEPT !.thrown = msg], msg)

\* A raise inside `try: ... finally: conn.close()` runs the close first;
\* a raise with no connection open goes straight to the handler.
Throw(inv, msg) ==
    IF inv.conn.state = "open"
    THEN [inv EXCEPT !.exc = msg, !.thrown = msg, !.pc = "close"]
    ELSE Handler([inv EXCEPT !.thrown = msg], msg)

Goto(inv, pc) == [inv EXCEPT !.pc = pc]

\* A module-level connection handed to every caller.
GetConnectionShared(inv) == "shared"

\* get_connection(): pyodbc.connect(...) makes a new connection object on
\* every call; the model names it after the invocation that made the call.
GetConnection(inv) == inv.id

\* One statement or commit issued on the connection.
Exec(inv) ==
    [inv EXCEPT !.conn.stmts = @ + 1,
                !.conn.unscoped = IF inv.conn.session.is_admin = Null
                                  THEN @ + 1 ELSE @]

\* An activity that writes under a tenant id other than its input record's
\* (say, one left over from another invocation).
TargetTenantStale(inv) == CHOOSE t \in TenantIds : TRUE

\* An activity that binds its session to a tenant id kept from an earlier
\* invocation instead of its input record's.
ScopeTenantStale(inv) == CHOOSE t \in TenantIds : t # (CHOOSE u \in TenantIds : TRUE)

\* The tenant id the activity passes to set_tenant_context, and the one it
\* passes to the upserts and mark_tenant_synced: both are tenant["tenant_id"]
\* of its input record.
ScopeTenant(inv) == inv.tenant

TargetTenant(inv) == inv.tenant

\* A reindex that reads without setting the admin context first.
AfterConnectReindexUnscoped(kind) ==
    IF kind = "reindex_search" THEN "read" ELSE "scope"

\* The statement after get_connection(): the scope-setting call.
AfterConnect(kind) == "scope"

\* A task that has nothing to store closes the connection right away.
AfterScopeSkipsEmpty(inv) ==
    CASE inv.kind = "collect_tenant_data" ->
            IF inv.todo > 0 THEN "upsert_secure_score"
            ELSE IF inv.m > 0 THEN "upsert_control_profiles" ELSE "close"
      [] inv.kind = "collect_compliance_data" -> "upsert_compliance_score"
      [] OTHER -> "read"

\* The first statement after the scope-setting call.
AfterScope(inv) ==
    CASE inv.kind = "collect_tenant_data" ->
            IF inv.todo > 0 THEN "upsert_secure_score" ELSE "upsert_control_profiles"
      [] inv.kind = "collect_compliance_data" -> "upsert_compliance_score"
      [] OTHER -> "read"

\* A loop body that fetches and upserts the controls without having upserted
\* the assessment they belong to.
LoopTopControlsFirst(inv) ==
    CASE inv.kind = "collect_tenant_data" ->
            IF inv.todo > 0 THEN "upsert_secure_score" ELSE "upsert_control_profiles"
      [] OTHER ->
            IF inv.todo > 0 THEN "fetch_controls" ELSE "mark_tenant_synced"

\* The top of the `for assessment in assessments` / `for score in scores` loop.
LoopTop(inv) ==
    CASE inv.kind = "collect_tenant_data" ->
            IF inv.todo > 0 THEN "upsert_secure_score" ELSE "upsert_control_profiles"
      [] OTHER ->
            IF inv.todo > 0 THEN "upsert_assessment" ELSE "mark_tenant_synced"

\* An upsert of `rows` rows into `table`: the MERGE statements, then the commit.
\* The row-level policy rejects a MERGE on a row the session may not touch.
UpsertOk(inv, x, table, rows) ==
    /\ ~x.fault
    /\ rows > 0 /\ table \in RlsTables
          => RlsAllows(inv.conn.session, TargetTenant(inv))

Upsert(inv, x, table, rows, next) ==
    IF UpsertOk(inv, x, table, rows)
    THEN Goto(Exec(inv), next)
    ELSE Throw(Exec(inv), Msg(inv.pc))

\* conn.close() in the finally block, then whatever follows the block.
Close(inv, x) ==
    LET exc    == IF x.fault THEN Msg("close") ELSE inv.exc
        closed == [inv EXCEPT !.conn.state = "closed", !.conn.closeCalls = @ + 1,
                              !.thrown = IF x.fault THEN Msg("close") ELSE @]
    IN  CASE exc # Null -> Handler(closed, exc)
          [] inv.kind \in FanoutKinds ->
                Return(closed, [tenant_id |-> inv.tenant, success |-> TRUE,
                                error |-> Null, items |-> inv.items])
          [] inv.kind = "get_active_tenants" ->
                [Return(closed, NoResult) EXCEPT !.out.tenants = inv.out.tenants]
          [] OTHER -> Goto(closed, "upload")

\* One step of main() of the activity `inv.kind`.
Step(inv, x) ==
    CASE inv.pc = "entry" ->
            \* tenant_id = tenant["tenant_id"]; log = ... : outside the try block
            IF x.fault THEN Escape(inv, Msg("entry")) ELSE Goto(inv, "auth")
      [] inv.pc = "auth" ->
            \* get_graph_token(tenant) / get_graph_client(tenant)
            IF x.fault THEN Throw(inv, Msg("auth")) ELSE Goto(inv, "fetch")
      [] inv.pc = "fetch" ->
            \* every external fetch made before the connection is opened
            IF x.fault THEN Throw(inv, Msg("fetch"))
            ELSE [Goto(inv, "connect") EXCEPT !.todo = x.n, !.items = x.n, !.m = x.m]
      [] inv.pc = "connect" ->
            \* conn = get_connection()
            IF x.fault THEN Throw(inv, Msg("connect"))
            ELSE [Goto(inv, AfterConnect(inv.kind))
                    EXCEPT !.conn.state = "open", !.conn.id = GetConnection(inv)]
      [] inv.pc = "scope" ->
            LET r    == IF inv.kind \in FanoutKinds
                        THEN SetTenantContext(inv.conn.session, ScopeTenant(inv))
                        ELSE SetAdminContext(inv.conn.session)
                inv1 == [inv EXCEPT !.conn.scopeCalls = @ + 1,
                                    !.conn.session = IF x.fault THEN @ ELSE r.sess]
            IN  IF x.fault \/ r.raised THEN Throw(inv1, Msg("scope"))
                ELSE Goto(inv1, AfterScope(inv1))
      \* collect_tenant_data: per snapshot, three upserts; then the profiles
      [] inv.pc = "upsert_secure_score" ->
            Upsert(inv, x, "secure_scores", 1, "upsert_control_scores")
      [] inv.pc = "upsert_control_scores" ->
            Upsert(inv, x, "control_scores", 1, "upsert_benchmarks")
      [] inv.pc = "upsert_benchmarks" ->
            LET inv1 == [inv EXCEPT !.todo = @ - 1]
            IN  Upsert(inv1, x, "benchmark_scores", 1, LoopTop(inv1))
      [] inv.pc = "upsert_control_profiles" ->
            Upsert(inv, x, "control_profiles", inv.m, "mark_tenant_synced")
      \* collect_compliance_data: overall + category scores, then per
      \* assessment its row, the fetch of its controls, and their rows
      [] inv.pc = "upsert_compliance_score" ->
            Upsert(inv, x, "compliance_scores", inv.m, LoopTop(inv))
      [] inv.pc = "upsert_assessment" ->
            LET inv1 == IF UpsertOk(inv, x, "assessments", 1)
                        THEN [inv EXCEPT !.conn.assessed = inv.todo] ELSE inv
            IN  Upsert(inv1, x, "assessments", 1, "fetch_controls")
      [] inv.pc = "fetch_controls" ->
            IF x.fault THEN Throw(inv, Msg("fetch_controls"))
            ELSE [Goto(inv, "upsert_assessment_control")
                    EXCEPT !.conn.fetches = @ + 1, !.m = x.m]
      [] inv.pc = "upsert_assessment_control" ->
            LET inv1 == [inv EXCEPT !.todo = @ - 1]
            IN  Upsert(inv1, x, "assessment_controls", inv.m, LoopTop(inv1))
      [] inv.pc = "mark_tenant_synced" ->
            LET inv1 == IF UpsertOk(inv, x, "tenants", 1)
                        THEN [inv EXCEPT !.conn.marks = @ + 1] ELSE inv
            IN  Upsert(inv1, x, "tenants", 1, "close")
      \* get_active_tenants / reindex_search: the admin-scoped read
      [] inv.pc = "read" ->
            IF x.fault THEN Throw(Exec(inv), Msg("read"))
            ELSE [Goto(Exec(inv), "close")
                    EXCEPT !.items = x.n,
                           !.out.tenants = IF inv.kind = "get_active_tenants"
                                           THEN x.active ELSE <<>>]
      [] inv.pc = "close" -> Close(inv, x)
      [] inv.pc = "upload" ->
            \* reindex_search after the finally block: no documents, no upload
            IF inv.items = 0
            THEN Return(inv, [NoResult EXCEPT !.success = TRUE])
            ELSE IF x.fault THEN Escape(inv, Msg("upload"))
            ELSE Return(inv, [NoResult EXCEPT !.success = TRUE, !.items = inv.items])
      [] OTHER -> inv

\* The table a step upserts into, and how many rows it carries.
TableOf(pc) ==
    CASE pc = "upsert_secure_score"       -> "secure_scores"
      [] pc = "upsert_control_scores"     -> "control_scores"
      [] pc = "upsert_benchmarks"         -> "benchmark_scores"
      [] pc = "upsert_control_profiles"   -> "control_profiles"
      [] pc = "upsert_compliance_score"   -> "compliance_scores"
      [] pc = "upsert_assessment"         -> "assessments"
      [] pc = "upsert_assessment_control" -> "assessment_controls"
      [] pc = "mark_tenant_synced"        -> "tenants"
      [] OTHER                            -> Null

RowsOf(inv) ==
    IF inv.pc \in {"upsert_control_profiles", "upsert_compliance_score",
                   "upsert_assessment_control"}
    THEN inv.m ELSE 1

\* The rows the step commits to the store: keyed by the tenant id the activity
\* passed and the loop item, `via` recording the session they went through.
StepWrites(inv, x) ==
    IF TableOf(inv.pc) # Null /\ RowsOf(inv) > 0
       /\ UpsertOk(inv, x, TableOf(inv.pc), RowsOf(inv))
    THEN {[table |-> TableOf(inv.pc), tenant_id |-> TargetTenant(inv),
           key |-> inv.todo, via |-> Attrs(inv.conn.session)]}
    ELSE {}

\* ------------------------------------------------------------------------
\* SpecTask : activity invocations running concurrently on the shared store
\* ------------------------------------------------------------------------

Slots == {"s1", "s2"}

InitTask ==
    /\ run = [s \in Slots |-> Idle]
    /\ store = {}

\* Slot s1 starts first and holds the activity that comes first in KindOrder:
\* the two slots are interchangeable, so each unordered pair of concurrent
\* invocations is explored once. Tenant ids are interchangeable too: s1 works
\* for one fixed tenant, s2 for that tenant or another.
KindOrder == <<"get_active_tenants", "reindex_search",
               "collect_tenant_data", "collect_compliance_data">>

KindRank(kind) == CHOOSE i \in DOMAIN KindOrder : KindOrder[i] = kind

\* The host starts an invocation of an activity.
StartActivity(s, kind, tenant) ==
    /\ run[s].kind = "idle"
    /\ kind \in FanoutKinds <=> tenant # Null
    /\ s = "s1" => tenant \in {Null, CHOOSE t \in TenantIds : TRUE}
    /\ s = "s2" => /\ run["s1"].kind # "idle"
                   /\ KindRank(run["s1"].kind) <= KindRank(kind)
    /\ run' = [run EXCEPT ![s] = [StartInv(kind, tenant) EXCEPT !.id = s]]
    /\ UNCHANGED <<libVars, store, sq, orchVars>>

\* A store in which a failing statement takes back the rows the task's
\* tenant had got so far.
StoreAfterRollback(st, inv, x) ==
    IF Step(inv, x).thrown # inv.thrown
    THEN {r \in st : r.tenant_id # inv.tenant}
    ELSE st \cup StepWrites(inv, x)

\* The store after a step: every upsert ends with conn.commit(), so its rows
\* are in the store from then on; a failing step and conn.close() leave the
\* committed rows as they are.
StoreAfter(st, inv, x) == st \cup StepWrites(inv, x)

\* The invocation in slot s executes its next statement.
StepActivity(s, x) ==
    /\ run[s].kind # "idle"
    /\ ~Finished(run[s])
    /\ run' = [run EXCEPT ![s] = Step(run[s], x)]
    /\ store' = StoreAfter(store, run[s], x)
    /\ UNCHANGED <<libVars, sq, orchVars>>

NextTask ==
    \/ \E s \in Slots, k \in FanoutKinds \cup SqlKinds, t \in TenantIds \cup {Null} :
          StartActivity(s, k, t)
    \/ \E s \in Slots : \E x \in InputsAt(run[s].pc) : StepActivity(s, x)

\* ------------------------------------------------------------------------
\* functions/orchestrator : the durable orchestrator
\* ------------------------------------------------------------------------

\* _SQL_RETRY.max_number_of_attempts and _GRAPH_RETRY.max_number_of_attempts
SqlMaxAttempts == 3
GraphMaxAttempts == 3

\* What one whole invocation meets: the step that raises (if any), whether
\* conn.close() raises as well, and the data the fetches and reads return.
\* The orchestrator only tells a return from a raise, so one raising step per
\* outcome stands for the others: `entry` escapes a fan-out activity, `auth`
\* is caught and reported by it, `read` escapes a SQL activity.
Plans(kind) ==
    [failAt : IF kind \in FanoutKinds
              THEN {"none", "entry", "auth"}
              ELSE {"none", "read"},
     closeFails : {FALSE}, n : {MaxItems}, m : {1},
     active : IF kind = "get_active_tenants" THEN ActiveLists ELSE {<<>>}]

\* main() of the activity run from its first statement to its return or raise.
RECURSIVE RunToEnd(_, _)
RunToEnd(inv, plan) ==
    IF Finished(inv) THEN inv
    ELSE RunToEnd(Step(inv, [fault  |-> \/ inv.pc = plan.failAt
                                        \/ inv.pc = "close" /\ plan.closeFails,
                             n      |-> plan.n,
                             m      |-> plan.m,
                             active |-> plan.active]), plan)

Invoke(kind, tenant, plan) == RunToEnd(StartInv(kind, tenant), plan).out

\* A retry policy that also re-invokes an activity whose result says success = False.
AfterAttemptRetryReported(log, out, maxAttempts) ==
    CASE out.status = "returned" /\ out.result.success -> "completed"
      [] Len(log) + 1 < maxAttempts -> "pending"
      [] out.status = "returned" -> "completed"
      [] OTHER -> "failed"

\* call_activity_with_retry: the activity is invoked again only after an
\* invocation raised, and at most max_number_of_attempts times in all.
AfterAttempt(log, out, maxAttempts) ==
    CASE out.status = "returned" -> "completed"
      [] Len(log) + 1 < maxAttempts -> "pending"
      [] OTHER -> "failed"

\* What the orchestration history keeps of one invocation.
LogEntry(out) ==
    [status  |-> out.status,
     success |-> out.status = "returned" /\ out.result.success,
     error   |-> IF out.status = "raised" THEN out.exc ELSE out.result.error]

NewTask(name, tenant) ==
    [name |-> name, tenant |-> tenant, status |-> "pending", log |-> <<>>,
     result |-> NoResult]

\* A fan-out that forgets the second append.
RECURSIVE ScheduleOnePerTenant(_)
ScheduleOnePerTenant(ts) ==
    IF ts = <<>> THEN <<>>
    ELSE <<NewTask("collect_tenant_data", Head(ts))>>
         \o ScheduleOnePerTenant(Tail(ts))

\* for tenant in tenants: tasks.append(collect_tenant_data), tasks.append(
\* collect_compliance_data)
RECURSIVE ScheduleTasks(_)
ScheduleTasks(ts) ==
    IF ts = <<>> THEN <<>>
    ELSE <<NewTask("collect_tenant_data", Head(ts)),
           NewTask("collect_compliance_data", Head(ts))>>
         \o ScheduleTasks(Tail(ts))

Terminal(t) == t.status \in {"completed", "failed"}

\* A join that resumes the orchestrator as soon as one task has finished
\* (task_any in place of task_all).
TaskAllAnyDone(ts) ==
    [ready   |-> ts = <<>> \/ \E i \in DOMAIN ts : Terminal(ts[i]),
     faulted |-> \E i \in DOMAIN ts : ts[i].status = "failed",
     value   |-> [i \in DOMAIN ts |-> ts[i].result]]

\* context.task_all(tasks): resumes the orchestrator with the list of results,
\* in task order, once every task has completed; a task that failed (its
\* retries exhausted) makes task_all raise in the orchestrator instead.
TaskAll(ts) ==
    [ready   |-> \/ \E i \in DOMAIN ts : ts[i].status = "failed"
                 \/ \A i \in DOMAIN ts : ts[i].status = "completed",
     faulted |-> \E i \in DOMAIN ts : ts[i].status = "failed",
     value   |-> [i \in DOMAIN ts |-> ts[i].result]]

InitOrch ==
    /\ orchPc = "load"
    /\ tenants = <<>>
    /\ tasks = <<>>
    /\ loadLog = <<>>
    /\ reindexLog = <<>>
    /\ results = <<>>

\* Step 1: get_active_tenants under _SQL_RETRY; on its return the orchestrator
\* schedules the fan-out and yields on task_all. A load that fails on its last
\* attempt raises out of the orchestrator.
LoadTenants(plan) ==
    /\ orchPc = "load"
    /\ LET out  == Invoke("get_active_tenants", Null, plan)
           next == AfterAttempt(loadLog, out, SqlMaxAttempts)
       IN  /\ loadLog' = Append(loadLog, LogEntry(out))
           /\ orchPc' = CASE next = "completed" -> "fanout"
                          [] next = "pending"   -> "load"
                          [] OTHER              -> "failed"
           /\ tenants' = IF next = "completed" THEN out.tenants ELSE tenants
           /\ tasks' = IF next = "completed" THEN ScheduleTasks(out.tenants)
                       ELSE tasks
    /\ UNCHANGED <<libVars, reindexLog, results, sq, run, store>>

\* A fan-out that yields on each task before it schedules the next one.
CanRunInOrder(ts, i) ==
    ts[i].status = "pending" /\ \A j \in 1..(i-1) : Terminal(ts[j])

\* Every task is scheduled before the single yield on task_all: a task makes
\* its next attempt whenever it is not terminal yet, whatever the others do.
CanRun(ts, i) == ts[i].status = "pending"

\* Step 2: one invocation of fan-out task i under _GRAPH_RETRY.
RunTask(i, plan) ==
    /\ orchPc = "fanout"
    /\ CanRun(tasks, i)
    /\ LET out == Invoke(tasks[i].name, tasks[i].tenant, plan)
       IN  tasks' = [tasks EXCEPT
                       ![i].status = AfterAttempt(tasks[i].log, out, GraphMaxAttempts),
                       ![i].log    = Append(@, LogEntry(out)),
                       ![i].result = out.result]
    /\ UNCHANGED <<libVars, orchPc, tenants, loadLog, reindexLog, results, sq, run, store>>

\* results = yield context.task_all(tasks)
JoinAll ==
    /\ orchPc = "fanout"
    /\ TaskAll(tasks).ready
    /\ IF TaskAll(tasks).faulted
       THEN orchPc' = "failed" /\ results' = results
       ELSE orchPc' = "reindex" /\ results' = TaskAll(tasks).value
    /\ UNCHANGED <<libVars, tenants, tasks, loadLog, reindexLog, sq, run, store>>

\* Step 3: reindex_search under _SQL_RETRY, then `return results`.
Reindex(plan) ==
    /\ orchPc = "reindex"
    /\ LET out  == Invoke("reindex_search", Null, plan)
           next == AfterAttempt(reindexLog, out, SqlMaxAttempts)
       IN  /\ reindexLog' = Append(reindexLog, LogEntry(out))
           /\ orchPc' = CASE next = "completed" -> "completed"
                          [] next = "pending"   -> "reindex"
                          [] OTHER              -> "failed"
    /\ UNCHANGED <<libVars, tenants, tasks, loadLog, results, sq, run, store>>

Next ==
    \/ \E plan \in Plans("get_active_tenants") : LoadTenants(plan)
    \/ \E i \in DOMAIN tasks : \E plan \in Plans(tasks[i].name) : RunTask(i, plan)
    \/ JoinAll
    \/ \E plan \in Plans("reindex_search") : Reindex(plan)

\* ------------------------------------------------------------------------
\* SpecSql : the session-context API on ConnIds, called in any order
\* ------------------------------------------------------------------------

ConnIds == {"c1", "c2"}

NoCall == [name |-> "none", arg |-> Null, raised |-> FALSE, late |-> FALSE]

\* sq[c].scoped: a scope-setting call on c has returned without raising;
\* sq[c].scopedAs: the attribute pair as that call left it; sq[c].last is the
\* most recent scope-setting call, `late` telling whether it was made on a
\* connection that already had its scope set.
InitSql ==
    sq = [c \in ConnIds |->
            [state |-> "none", session |-> NoSession, scoped |-> FALSE,
             scopedAs |-> Attrs(NoSession), last |-> NoCall]]

AfterScopeCall(c, name, arg, r) ==
    [sq EXCEPT ![c] =
        [state    |-> "open",
         session  |-> r.sess,
         scoped   |-> sq[c].scoped \/ ~r.raised,
         scopedAs |-> IF ~sq[c].scoped /\ ~r.raised
                      THEN Attrs(r.sess) ELSE sq[c].scopedAs,
         last     |-> [name |-> name, arg |-> arg, raised |-> r.raised,
                       late |-> sq[c].scoped]]]

\* get_connection(): pyodbc.connect
SqlOpen(c) ==
    /\ sq[c].state = "none"
    /\ sq' = [sq EXCEPT ![c].state = "open"]
    /\ UNCHANGED <<libVars, run, store, orchVars>>

SqlSetTenant(c, t) ==
    /\ sq[c].state = "open"
    /\ sq' = AfterScopeCall(c, "set_tenant_context", t,
                            SetTenantContext(sq[c].session, t))
    /\ UNCHANGED <<libVars, run, store, orchVars>>

SqlSetAdmin(c) ==
    /\ sq[c].state = "open"
    /\ sq' = AfterScopeCall(c, "set_admin_context", Null,
                            SetAdminContext(sq[c].session))
    /\ UNCHANGED <<libVars, run, store, orchVars>>

\* conn.close(): the session context dies with the connection.
SqlClose(c) ==
    /\ sq[c].state = "open"
    /\ sq' = [sq EXCEPT ![c].state = "closed"]
    /\ UNCHANGED <<libVars, run, store, orchVars>>

NextSql ==
    \/ \E c \in ConnIds : SqlOpen(c)
    \/ \E c \in ConnIds, t \in TenantIds : SqlSetTenant(c, t)
    \/ \E c \in ConnIds : SqlSetAdmin(c)
    \/ \E c \in ConnIds : SqlClose(c)

\* ------------------------------------------------------------------------
\* SpecScores : upsert_compliance_score on the compliance_scores table
\* ------------------------------------------------------------------------

SnapshotDates == {"d1", "d2"}

\* "overall" is the default of the category parameter.
Categories == {"overall", "Data Protection"}

\* The (current_score, max_score) pairs a call may carry.
ScoreValues == {[current_score |-> 0, max_score |-> 1],
                [current_score |-> 1, max_score |-> 2]}

\* The columns the MERGE matches on.
ScoreKeys == [tenant_id : TenantIds, snapshot_date : SnapshotDates,
              category : Categories]

\* scores[k]: the rows of compliance_scores whose key columns are k, oldest
\* first (the value columns of each); latest[k]: the values of the most recent
\* call for k, if any; lastUpsert: what the most recent call's MERGE did, an
\* "insert", an "update" that changed the row's values or a "rewrite" of the
\* values it already had.
InitScores ==
    /\ scores = [k \in ScoreKeys |-> <<>>]
    /\ latest = [k \in ScoreKeys |-> <<>>]
    /\ lastUpsert = "none"

\* A plain INSERT in place of the MERGE.
MergeInsertOnly(table, key, value) ==
    [table EXCEPT ![key] = Append(@, value)]

\* MERGE compliance_scores ON tenant_id, snapshot_date, category:
\* WHEN MATCHED THEN UPDATE SET current_score, max_score (every matching row);
\* WHEN NOT MATCHED THEN INSERT the full row.
MergeComplianceScore(table, key, value) ==
    IF table[key] # <<>>
    THEN [table EXCEPT ![key] = [i \in DOMAIN table[key] |-> value]]
    ELSE [table EXCEPT ![key] = <<value>>]

\* upsert_compliance_score(conn, tenant_id, snapshot_date, current_score,
\* max_score, category): the MERGE, then the commit.
UpsertComplianceScore(key, value) ==
    /\ scores' = MergeComplianceScore(scores, key, value)
    /\ latest' = [latest EXCEPT ![key] = <<value>>]
    /\ lastUpsert' = CASE scores[key] = <<>>       -> "insert"
                        [] scores[key][1] # value -> "update"
                        [] OTHER                  -> "rewrite"
    /\ UNCHANGED <<utilVars, coreVars, getVars, pageVars, fetchVars>>

NextScores ==
    \E key \in ScoreKeys, value \in ScoreValues : UpsertComplianceScore(key, value)

\* ------------------------------------------------------------------------
\* SpecGet : shared/graph_client.py _session / _get, one GET with its retries
\* ------------------------------------------------------------------------

\* Retry(total=4): the number of retries urllib3 allows after the first attempt.
RetryTotal == 4

\* Retry(status_forcelist=[429, 500, 502, 503, 504])
StatusForcelist == {429, 500, 502, 503, 504}

\* The statuses the scripted server answers with.
Statuses == {200, 404, 429, 503}

\* Length of the server's script: its answers to consecutive attempts.
MaxResponses == 6

NoReq == [pc |-> "send", attempts |-> 0, retries |-> RetryTotal,
          status |-> 0, out |-> "running", exc |-> Null]

\* No GET in progress.
IdleGet ==
    /\ responses = <<>>
    /\ req = NoReq

InitGet ==
    /\ responses \in [1..MaxResponses -> Statuses]
    /\ req = NoReq

\* Retry.increment(): the budget is used up once `total` would drop below 0.
RetryExhausted(retries) == retries - 1 < 0

\* HTTPAdapter.send with max_retries: one attempt. A status of the forcelist
\* is retried (after the backoff sleep) while the budget lasts, and raises
\* RetryError once it is used up; any other response is handed back.
GetSend ==
    /\ req.pc = "send"
    /\ req.attempts < Len(responses)
    /\ LET status == responses[req.attempts + 1]
           sent   == [req EXCEPT !.attempts = @ + 1, !.status = status]
       IN  req' = CASE status \notin StatusForcelist ->
                         [sent EXCEPT !.pc = "raise_for_status"]
                    [] RetryExhausted(req.retries) ->
                         [sent EXCEPT !.pc = "done", !.out = "raised",
                                      !.exc = "RetryError"]
                    [] OTHER ->
                         [sent EXCEPT !.retries = @ - 1]
    /\ UNCHANGED <<utilVars, responses, coreVars, scoreVars, pageVars, fetchVars>>

\* resp.raise_for_status(); return resp.json()
GetRaiseForStatus ==
    /\ req.pc = "raise_for_status"
    /\ req' = IF req.status >= 400
              THEN [req EXCEPT !.pc = "done", !.out = "raised", !.exc = "HTTPError"]
              ELSE [req EXCEPT !.pc = "done", !.out = "returned"]
    /\ UNCHANGED <<utilVars, responses, coreVars, scoreVars, pageVars, fetchVars>>

NextGet == GetSend \/ GetRaiseForStatus

\* ------------------------------------------------------------------------
\* SpecPages : shared/graph_client.py _paginate and the raw-HTTP list fetches
\* ------------------------------------------------------------------------

\* Number of page URLs the server knows per endpoint.
MaxPages == 2

Endpoints == {"preferred", "alternative"}

\* get_control_profiles is list(_paginate(url)) with no handler; the two
\* Compliance Manager list fetches wrap it in the 404 fallback.
PagedFetches == {"get_control_profiles", "get_compliance_assessments",
                 "get_assessment_controls"}

\* What _get gives for one page URL: the body (n items under "value", with or
\* without "@odata.nextLink"), or the exception it raises: HTTPError from
\* raise_for_status, RetryError once the retries of a 5xx are used up.
Replies ==
    [kind : {"ok"}, exc : {Null}, status : {200}, n : 0..MaxItems, next : BOOLEAN]
    \cup {[kind |-> "error", exc |-> "HTTPError", status |-> 404, n |-> 0, next |-> FALSE],
          [kind |-> "error", exc |-> "HTTPError", status |-> 403, n |-> 0, next |-> FALSE],
          [kind |-> "error", exc |-> "RetryError", status |-> 503, n |-> 0, next |-> FALSE]}

\* A page no link leads to.
Stray == [kind |-> "ok", exc |-> Null, status |-> 200, n |-> 1, next |-> FALSE]

\* The pages behind one endpoint: page i links to page i+1 when it carries a
\* continuation link; the last URL carries none (the chain is finite); pages
\* no link leads to all look alike.
Chains ==
    {c \in [1..MaxPages -> Replies] :
        /\ ~c[MaxPages].next
        /\ \A i \in 2..MaxPages :
              (\E j \in 1..(i-1) : ~c[j].next) => c[i] = Stray}

\* The items of page i of endpoint e, in the order the server returns them.
PageItems(e, i, reply) == [k \in 1..reply.n |-> <<e, i, k>>]

NoFetch == [fn |-> "none", pc |-> "done", endpoint |-> "preferred", url |-> 0,
            items |-> <<>>, requests |-> <<>>, exc |-> Null, status |-> 0,
            out |-> "running", result |-> <<>>]

\* No list fetch in progress.
IdlePages ==
    /\ pages = [e \in Endpoints |-> [i \in 1..MaxPages |-> Stray]]
    /\ call = NoFetch

InitPages ==
    /\ pages \in [Endpoints -> Chains]
    /\ \E fn \in PagedFetches :
          call = [NoFetch EXCEPT !.fn = fn, !.pc = "paginate", !.url = 1]

\* A loop that never looks for the continuation link.
NextLinkFirstPageOnly(reply, i) == 0

\* url = data.get("@odata.nextLink"): the next page's URL, or None (0).
NextLink(reply, i) == IF reply.next THEN i + 1 ELSE 0

\* One turn of `while url:` in _paginate, inside list(...): the GET of the
\* current URL, its items yielded, the link followed. When the link is absent
\* the generator ends and the fetch returns the list.
PaginateGet ==
    /\ call.pc = "paginate"
    /\ LET reply == pages[call.endpoint][call.url]
           asked == [call EXCEPT !.requests = Append(@, <<call.endpoint, call.url>>)]
           items == call.items \o PageItems(call.endpoint, call.url, reply)
           url   == NextLink(reply, call.url)
       IN  call' = CASE reply.kind = "error" ->
                          [asked EXCEPT !.pc = "except", !.exc = reply.exc,
                                        !.status = reply.status]
                     [] url = 0 ->
                          [asked EXCEPT !.pc = "done", !.items = items, !.url = 0,
                                        !.out = "returned", !.result = items]
                     [] OTHER ->
                          [asked EXCEPT !.items = items, !.url = url]
    /\ UNCHANGED <<utilVars, pages, coreVars, scoreVars, getVars, fetchVars>>

Raised(c) == [c EXCEPT !.pc = "done", !.out = "raised"]

\* A handler that tries the alternative endpoint after any HTTP error.
OnExceptionAnyStatus(c) ==
    CASE c.fn = "get_control_profiles" -> Raised(c)
      [] c.exc # "HTTPError" -> Raised(c)
      [] c.endpoint = "preferred" ->
            [c EXCEPT !.pc = "paginate", !.endpoint = "alternative", !.url = 1,
                      !.items = <<>>]
      [] OTHER -> [c EXCEPT !.pc = "done", !.out = "returned", !.result = <<>>]

\* except requests.HTTPError as e: on a 404 from the preferred endpoint the
\* alternative is listed, any HTTPError from the alternative gives []; every
\* other exception propagates. get_control_profiles has no handler.
OnException(c) ==
    CASE c.fn = "get_control_profiles" -> Raised(c)
      [] c.exc # "HTTPError" -> Raised(c)
      [] c.endpoint = "preferred" ->
            IF c.status = 404
            THEN [c EXCEPT !.pc = "paginate", !.endpoint = "alternative",
                           !.url = 1, !.items = <<>>]
            ELSE Raised(c)
      [] OTHER -> [c EXCEPT !.pc = "done", !.out = "returned", !.result = <<>>]

PaginateExcept ==
    /\ call.pc = "except"
    /\ call' = OnException(call)
    /\ UNCHANGED <<utilVars, pages, coreVars, scoreVars, getVars, fetchVars>>

NextPages == PaginateGet \/ PaginateExcept

\* ------------------------------------------------------------------------
\* SpecFetch : collect_compliance_data, the four logical fetches of main()
\* ------------------------------------------------------------------------

\* The logical fetches in the order main() makes them; the controls of an
\* assessment are fetched inside the loop over the assessments.
FetchOrder == <<"score", "breakdown", "assessments", "controls">>

FetchNames == {FetchOrder[i] : i \in DOMAIN FetchOrder}

\* What the Graph SDK call inside a *_sdk function does: raise, give nothing
\* (None, or a collection without value), give an object with no field set,
\* or give data.
SdkAnswers == {"raise", "none", "empty", "data"}

\* What the raw-HTTP function does: report the endpoint missing (its 404
\* handling), return data, or raise.
HttpAnswers == {"missing", "data", "raise"}

\* get_compliance_score_sdk returns None when the call raised or gave nothing,
\* else _model_to_dict(result), which is {} for an object with no field set;
\* the list functions return [] unless result.value holds items.
SdkResult(f, answer) ==
    IF f = "score"
    THEN CASE answer \in {"raise", "none"} -> "none"
           [] answer = "empty"             -> "empty"
           [] OTHER                        -> "data"
    ELSE IF answer = "data" THEN "data" ELSE "empty"

\* get_compliance_score returns None on a 404, the list functions [].
HttpResult(f, answer) ==
    CASE answer = "data" -> "data"
      [] f = "score"     -> "none"
      [] OTHER           -> "empty"

\* `if score_data is None:` for the score, `if not <list>:` for the lists.
NeedsFallback(f, result) ==
    IF f = "score" THEN result = "none" ELSE result # "data"

Unset == [src |-> "unset", val |-> "none"]

NoFetching == [pc |-> "done", f |-> "score", token |-> FALSE,
               used |-> [f \in FetchNames |-> Unset],
               out |-> "running", error |-> Null]

IdleFetch ==
    /\ world = [sdk   |-> [f \in FetchNames |-> "data"],
                http  |-> [f \in FetchNames |-> "data"],
                token |-> "ok"]
    /\ fetch = NoFetching

\* For the list fetches the SDK giving nothing and the SDK giving an empty
\* collection both end in []: one of the two answers stands for both.
InitFetch ==
    /\ world \in [sdk   : [FetchNames -> SdkAnswers],
                  http  : [FetchNames -> HttpAnswers],
                  token : {"ok", "raise"}]
    /\ \A f \in FetchNames \ {"score"} : world.sdk[f] # "none"
    /\ fetch = [NoFetching EXCEPT !.pc = "primary"]

\* The fetch f has its value: on to the next one. Without assessments the
\* loop body, and with it the controls fetch, never runs.
Settle(st, f, src, val) ==
    LET st1 == [st EXCEPT !.used[f] = [src |-> src, val |-> val]]
    IN  CASE f = "score"      -> [st1 EXCEPT !.pc = "primary", !.f = "breakdown"]
          [] f = "breakdown"  -> [st1 EXCEPT !.pc = "primary", !.f = "assessments"]
          [] f = "assessments" /\ val = "data" ->
                                 [st1 EXCEPT !.pc = "primary", !.f = "controls"]
          [] OTHER            -> [st1 EXCEPT !.pc = "done", !.out = "fetched"]

\* An exception reaches `except Exception as exc` of main(): the task
\* returns success = False.
FetchFails(st, what) == [st EXCEPT !.pc = "done", !.out = "failed", !.error = what]

\* <x> = get_<x>_sdk(client) and the test that follows it.
FetchPrimary ==
    /\ fetch.pc = "primary"
    /\ LET r == SdkResult(fetch.f, world.sdk[fetch.f])
       IN  fetch' = IF NeedsFallback(fetch.f, r)
                    THEN [fetch EXCEPT !.pc = IF fetch.token THEN "fallback"
                                              ELSE "token"]
                    ELSE Settle(fetch, fetch.f, "sdk", r)
    /\ UNCHANGED <<utilVars, world, coreVars, scoreVars, getVars, pageVars>>

\* _get_raw_token(): get_graph_token(tenant) on first use.
FetchToken ==
    /\ fetch.pc = "token"
    /\ fetch' = IF world.token = "raise"
                THEN FetchFails(fetch, "token")
                ELSE [fetch EXCEPT !.pc = "fallback", !.token = TRUE]
    /\ UNCHANGED <<utilVars, world, coreVars, scoreVars, getVars, pageVars>>

\* <x> = get_<x>(_get_raw_token())
FetchFallback ==
    /\ fetch.pc = "fallback"
    /\ fetch' = IF world.http[fetch.f] = "raise"
                THEN FetchFails(fetch, fetch.f)
                ELSE Settle(fetch, fetch.f, "http",
                            HttpResult(fetch.f, world.http[fetch.f]))
    /\ UNCHANGED <<utilVars, world, coreVars, scoreVars, getVars, pageVars>>

NextFetch == FetchPrimary \/ FetchToken \/ FetchFallback

\* ------------------------------------------------------------------------
\* SpecNormalize : collect_compliance_data _normalize_assessment / _normalize_control
\* ------------------------------------------------------------------------

\* A key the dict does not hold (distinct from a key mapped to None).
Absent == "ABSENT"

Normalizers == {"assessment", "control"}

\* The keys of the dict each normalizer returns.
CanonicalKeys(kind) ==
    IF kind = "assessment"
    THEN {"id", "displayName", "description", "status", "regulation",
          "regulationName", "complianceStandard", "complianceScore",
          "passedControls", "failedControls", "totalControls",
          "createdDateTime", "lastModifiedDateTime"}
    ELSE {"id", "displayName", "controlFamily", "controlCategory",
          "implementationStatus", "testStatus", "score", "maxScore",
          "scoreImpact", "owner", "actionUrl", "implementationDetails",
          "testPlan", "managementResponse", "evidenceOfCompletion", "service"}

\* The snake_case spelling the normalizers look up after the camelCase one.
SnakeCase ==
    [displayName |-> "display_name", regulationName |-> "regulation_name",
     complianceStandard |-> "compliance_standard",
     complianceScore |-> "compliance_score", passedControls |-> "passed_controls",
     failedControls |-> "failed_controls", totalControls |-> "total_controls",
     createdDateTime |-> "created_date_time",
     lastModifiedDateTime |-> "last_modified_date_time",
     controlFamily |-> "control_family", controlCategory |-> "control_category",
     implementationStatus |-> "implementation_status", testStatus |-> "test_status",
     maxScore |-> "max_score", scoreImpact |-> "score_impact",
     actionUrl |-> "action_url", implementationDetails |-> "implementation_details",
     testPlan |-> "test_plan", managementResponse |-> "management_response",
     evidenceOfCompletion |-> "evidence_of_completion"]

\* The source keys looked up for canonical key f, in the order of the nested
\* .get calls.
Spellings(kind, f) ==
    CASE f = "displayName" /\ kind = "control" ->
            <<"displayName", "display_name", "controlName", "control_name">>
      [] f \in DOMAIN SnakeCase -> <<f, SnakeCase[f]>>
      [] OTHER -> <<f>>

\* The default of the innermost .get: "" for displayName, None elsewhere.
InnerDefault(f) == IF f = "displayName" THEN "" ELSE Null

KnownKeys ==
    UNION {{Spellings(kind, f)[i] : i \in DOMAIN Spellings(kind, f)} :
              kind \in Normalizers, f \in CanonicalKeys("assessment")
                                          \cup CanonicalKeys("control")}

\* The keys whose presence and value the harness varies; every other known
\* key is absent from the dict.
VariedKeys == {"id", "displayName", "display_name", "controlName",
               "control_name", "complianceScore", "compliance_score"}

\* A dict: each key absent, mapped to None, or mapped to a value (the model
\* gives each key a value of its own, named after the key).
Dicts ==
    {[k \in KnownKeys |->
         IF k \notin VariedKeys THEN Absent
         ELSE IF held[k] = "value" THEN k ELSE held[k]] :
        held \in [VariedKeys -> {Absent, Null, "value"}]}

\* The marker of a KeyError in flight.
KeyError == "KeyError"

\* d[key] in place of d.get(key, default).
Subscript(d, key, default) ==
    IF d[key] = Absent THEN KeyError ELSE d[key]

\* d.get(key, default): the default only when the key is absent.
Get(d, key, default) ==
    IF d[key] = Absent THEN default ELSE d[key]

\* a.get(k1, a.get(k2, ... a.get(kn, default)))
RECURSIVE Lookup(_, _, _)
Lookup(d, keys, default) ==
    IF keys = <<>> THEN default
    ELSE LET inner == Lookup(d, Tail(keys), default)
         IN  IF inner = KeyError THEN KeyError ELSE Get(d, Head(keys), inner)

\* _normalize_assessment(a) / _normalize_control(c): the dict literal.
Normalize(kind, d) ==
    LET rec == [f \in CanonicalKeys(kind) |->
                    Lookup(d, Spellings(kind, f), InnerDefault(f))]
    IN  [raised |-> \E f \in DOMAIN rec : rec[f] = KeyError, rec |-> rec]

NoNorm == [kind |-> "assessment", pc |-> "done", raised |-> FALSE, rec |-> <<>>]

IdleNormalize ==
    /\ doc = [k \in KnownKeys |-> Absent]
    /\ norm = NoNorm

InitNormalize ==
    /\ doc \in Dicts
    /\ \E kind \in Normalizers : norm = [NoNorm EXCEPT !.kind = kind, !.pc = "call"]

NormalizeCall ==
    /\ norm.pc = "call"
    /\ LET r == Normalize(norm.kind, doc)
       IN  norm' = [norm EXCEPT !.pc = "returned", !.raised = r.raised,
                                !.rec = IF r.raised THEN <<>> ELSE r.rec]
    /\ UNCHANGED <<doc, coreVars, baseLibVars, uploadVars, daysVars, kvVars>>

NextNormalize == NormalizeCall

\* ------------------------------------------------------------------------
\* SpecUpload : reindex_search.main after the documents were read
\* ------------------------------------------------------------------------

BatchSize == 1000

MaxBatches == 2

Min(a, b) == IF a < b THEN a ELSE b

\* len(docs): around every multiple of the batch size up to MaxBatches batches.
DocCounts ==
    {n \in {k * BatchSize + d : k \in 0..MaxBatches, d \in {0, 1, BatchSize - 1}} :
        n <= MaxBatches * BatchSize}

\* docs[i : i + batch_size] as the positions (1-based) of its first and last
\* document; a slice never reaches past the end of the list.
SliceOverlapping(n, i) == [from |-> i + 1, to |-> Min(i + BatchSize + 1, n)]

Slice(n, i) == [from |-> i + 1, to |-> Min(i + BatchSize, n)]

SliceLen(sl) == sl.to - sl.from + 1

\* The per-document results of one upload_documents call: how many documents
\* the service reports as succeeded and how many as failed.
UploadResults(sl) ==
    {[succeeded |-> k, failed |-> SliceLen(sl) - k] :
        k \in {0, 1, SliceLen(sl) - 1, SliceLen(sl)} \cap 0..SliceLen(sl)}

\* total += sum(1 for r in result if r.succeeded)
TallyAll(total, result) == total + result.succeeded + result.failed

Tally(total, result) == total + result.succeeded

NoUpload == [pc |-> "done", n |-> 0, i |-> 0, total |-> 0, calls |-> <<>>,
             indexed |-> Null]

IdleUpload == upload = NoUpload

InitUpload ==
    \E n \in DocCounts : upload = [NoUpload EXCEPT !.pc = "check", !.n = n]

\* if not docs: return {"indexed": 0}; else build the client and enter the loop
UploadCheck ==
    /\ upload.pc = "check"
    /\ upload' = IF upload.n = 0
                 THEN [upload EXCEPT !.pc = "returned", !.indexed = 0]
                 ELSE [upload EXCEPT !.pc = "loop", !.i = 0, !.total = 0]
    /\ UNCHANGED <<coreVars, baseLibVars, normVars, daysVars, kvVars>>

\* One iteration of for i in range(0, len(docs), batch_size): the call
\* answers with per-document results, or raises (the request itself failed)
\* and the exception leaves main.
UploadBatch ==
    /\ upload.pc = "loop"
    /\ upload.i < upload.n
    /\ LET sl == Slice(upload.n, upload.i)
       IN  \/ \E result \in UploadResults(sl) :
                upload' = [upload EXCEPT
                              !.calls = Append(@, [from |-> sl.from, to |-> sl.to,
                                                   succeeded |-> result.succeeded]),
                              !.total = Tally(upload.total, result),
                              !.i = upload.i + BatchSize]
           \/ upload' = [upload EXCEPT
                              !.calls = Append(@, [from |-> sl.from, to |-> sl.to,
                                                   succeeded |-> 0]),
                              !.pc = "raised"]
    /\ UNCHANGED <<coreVars, baseLibVars, normVars, daysVars, kvVars>>

\* range exhausted: return {"indexed": total}
UploadReturn ==
    /\ upload.pc = "loop"
    /\ upload.i >= upload.n
    /\ upload' = [upload EXCEPT !.pc = "returned", !.indexed = upload.total]
    /\ UNCHANGED <<coreVars, baseLibVars, normVars, daysVars, kvVars>>

NextUpload == UploadCheck \/ UploadBatch \/ UploadReturn

\* ------------------------------------------------------------------------
\* SpecDays : graph_client.get_secure_scores
\* ------------------------------------------------------------------------

MaxDays == 90

DaysMargin == 5

\* The days argument: an int, or a value of another type (a float, a str)
\* shown with the number it stands for.
DaysValues ==
    [isInt : BOOLEAN, value : (0 - DaysMargin)..(MaxDays + DaysMargin)]

\* not (not isinstance(days, int) or not (1 <= days <= MAX_DAYS))
ValidDaysBelowMax(days) == days.isInt /\ 1 <= days.value /\ days.value < MaxDays

ValidDays(days) == days.isInt /\ 1 <= days.value /\ days.value <= MaxDays

NoScoreCall == [pc |-> "done", days |-> [isInt |-> TRUE, value |-> 1],
                requests |-> 0, exc |-> Null]

IdleDays == scoreCall = NoScoreCall

InitDays == \E days \in DaysValues :
                scoreCall = [NoScoreCall EXCEPT !.pc = "validate", !.days = days]

\* if not isinstance(days, int) or not (1 <= days <= MAX_DAYS): raise ValueError
SecureScoresValidate ==
    /\ scoreCall.pc = "validate"
    /\ scoreCall' = IF ValidDays(scoreCall.days)
                    THEN [scoreCall EXCEPT !.pc = "fetch"]
                    ELSE [scoreCall EXCEPT !.pc = "raised", !.exc = "ValueError"]
    /\ UNCHANGED <<coreVars, baseLibVars, normVars, uploadVars, kvVars>>

\* return list(_paginate(url, token)): the items, or the error of the request
SecureScoresFetch ==
    /\ scoreCall.pc = "fetch"
    /\ \/ scoreCall' = [scoreCall EXCEPT !.pc = "returned", !.requests = @ + 1]
       \/ scoreCall' = [scoreCall EXCEPT !.pc = "raised", !.requests = @ + 1,
                                         !.exc = "HTTPError"]
    /\ UNCHANGED <<coreVars, baseLibVars, normVars, uploadVars, kvVars>>

NextDays == SecureScoresValidate \/ SecureScoresFetch

\* ------------------------------------------------------------------------
\* SpecKv : auth._get_kv_client called from the worker's threads
\* ------------------------------------------------------------------------

Threads == {"t1", "t2"}

MaxCalls == 2

NoThread == [pc |-> "idle", local |-> Null, calls |-> 0]

\* _kv_client = None at import; no client constructed, none returned.
NoKv == [client |-> Null, constructed |-> {}, returned |-> {},
         threads |-> [t \in Threads |-> NoThread]]

IdleKv == kv = NoKv

KvCall(t) ==
    /\ kv.threads[t].pc = "idle"
    /\ kv.threads[t].calls < MaxCalls
    /\ kv' = [kv EXCEPT !.threads[t].pc = "check", !.threads[t].calls = @ + 1]
    /\ UNCHANGED <<coreVars, baseLibVars, normVars, uploadVars, daysVars>>

\* if _kv_client is None:
KvCheck(t) ==
    /\ kv.threads[t].pc = "check"
    /\ kv' = [kv EXCEPT !.threads[t].pc =
                 IF kv.client = Null THEN "construct" ELSE "return"]
    /\ UNCHANGED <<coreVars, baseLibVars, normVars, uploadVars, daysVars>>

\* SecretClient(vault_url=..., credential=...): a new instance, named after
\* the thread that builds it.
KvConstruct(t) ==
    /\ kv.threads[t].pc = "construct"
    /\ kv' = [kv EXCEPT !.threads[t].pc = "assign", !.threads[t].local = t,
                        !.constructed = @ \cup {t}]
    /\ UNCHANGED <<coreVars, baseLibVars, normVars, uploadVars, daysVars>>

\* _kv_client = <the new instance>
KvAssign(t) ==
    /\ kv.threads[t].pc = "assign"
    /\ kv' = [kv EXCEPT !.threads[t].pc = "return", !.client = kv.threads[t].local]
    /\ UNCHANGED <<coreVars, baseLibVars, normVars, uploadVars, daysVars>>

\* return _kv_client
KvReturn(t) ==
    /\ kv.threads[t].pc = "return"
    /\ kv' = [kv EXCEPT !.threads[t].pc = "idle", !.returned = @ \cup {kv.client}]
    /\ UNCHANGED <<coreVars, baseLibVars, normVars, uploadVars, daysVars>>

NextKv ==
    \E t \in Threads :
        KvCall(t) \/ KvCheck(t) \/ KvConstruct(t) \/ KvAssign(t) \/ KvReturn(t)

IdleRest == IdleDays /\ IdleKv

IdleUtil == IdleNormalize /\ IdleUpload /\ IdleRest

vars == <<coreVars, libVars>>

\* The library-level harnesses at rest.
IdleLib == IdleGet /\ IdlePages /\ IdleFetch /\ IdleUtil

InitCore == InitSql /\ InitTask /\ InitOrch /\ InitScores

Init == InitCore /\ IdleLib

\* The start of a GET against each script the server may follow.
InitGetCall == InitCore /\ InitGet /\ IdlePages /\ IdleFetch /\ IdleUtil

\* The start of a list fetch against each server of pages.
InitPagedFetch == InitCore /\ IdleGet /\ InitPages /\ IdleFetch /\ IdleUtil

\* The start of the fetch section against each way the sources may answer.
InitFetching == InitCore /\ IdleGet /\ IdlePages /\ InitFetch /\ IdleUtil

\* Everything but the single-function harnesses at rest.
IdleBase == InitCore /\ IdleGet /\ IdlePages /\ IdleFetch

\* A normalizer about to be called on each dict.
InitNormalizing == IdleBase /\ InitNormalize /\ IdleUpload /\ IdleRest

\* reindex_search about to upload each number of documents.
InitUploading == IdleBase /\ IdleNormalize /\ InitUpload /\ IdleRest

\* get_secure_scores about to be called with each days value.
InitDaysCall == IdleBase /\ IdleNormalize /\ IdleUpload /\ InitDays /\ IdleKv

Spec == Init /\ [][Next]_vars

SpecTask == Init /\ [][NextTask]_vars

SpecSql == Init /\ [][NextSql]_vars

SpecScores == Init /\ [][NextScores]_vars

SpecGet == InitGetCall /\ [][NextGet]_vars

SpecPages == InitPagedFetch /\ [][NextPages]_vars

SpecFetch == InitFetching /\ [][NextFetch]_vars

SpecNormalize == InitNormalizing /\ [][NextNormalize]_vars

SpecUpload == InitUploading /\ [][NextUpload]_vars

SpecDays == InitDaysCall /\ [][NextDays]_vars

\* The process after import: the module global is None.
SpecKv == Init /\ [][NextKv]_vars


\* ========================================================================
\* Properties
\* ========================================================================

LoadSucceeded ==
    loadLog # <<>> /\ loadLog[Len(loadLog)].status = "returned"

RunEnded == orchPc \in {"completed", "failed"}

\* C1 (Spec): reindex_search is not invoked before every scheduled fan-out
\* task is terminal: it has returned a result (success or reported failure)
\* or has used up its retries.
C1_JoinBarrier ==
    reindexLog # <<>> => \A i \in DOMAIN tasks : Terminal(tasks[i])

\* Reindex has been invoked after a fan-out of four tasks of which one
\* returned a reported failure and another needed a retry.
C1_Witness ==
    /\ reindexLog # <<>>
    /\ Len(tasks) = 4
    /\ \E i \in DOMAIN tasks : tasks[i].status = "completed" /\ ~tasks[i].result.success
    /\ \E i \in DOMAIN tasks : Len(tasks[i].log) > 1

\* C2 (Spec): in every run whose registry load succeeded, reindex_search is
\* invoked, whatever the fan-out outcomes: a run that has ended has invoked it.
C2_ReindexAlwaysAttempted ==
    RunEnded /\ LoadSucceeded => reindexLog # <<>>

\* C3 (Spec): the fan-out holds, per listed tenant i, collect_tenant_data at
\* position 2i-1 and collect_compliance_data at position 2i and nothing else;
\* the result list the orchestrator gets and returns has 2 x Len(tenants)
\* records, record j being the result of task j.
C3_FanoutShape ==
    /\ Len(tasks) = 2 * Len(tenants)
    /\ \A i \in DOMAIN tenants :
          /\ tasks[2 * i - 1].name = "collect_tenant_data"
          /\ tasks[2 * i - 1].tenant = tenants[i]
          /\ tasks[2 * i].name = "collect_compliance_data"
          /\ tasks[2 * i].tenant = tenants[i]
    /\ orchPc \in {"reindex", "completed"} =>
          /\ Len(results) = 2 * Len(tenants)
          /\ \A i \in DOMAIN tenants :
                /\ results[2 * i - 1] = tasks[2 * i - 1].result
                /\ results[2 * i] = tasks[2 * i].result
                /\ results[2 * i - 1].tenant_id = tenants[i]
                /\ results[2 * i].tenant_id = tenants[i]

\* A run over two tenants has returned its four records, one of them a
\* reported failure, the tasks having needed different numbers of attempts.
C3_Witness ==
    /\ orchPc = "completed"
    /\ Len(tenants) = 2 /\ Len(results) = 4
    /\ \E j \in DOMAIN results : ~results[j].success
    /\ \E i, j \in DOMAIN tasks : Len(tasks[i].log) < Len(tasks[j].log)

\* A run over the empty tenant list has returned the empty result list.
C3_WitnessEmpty ==
    orchPc = "completed" /\ LoadSucceeded /\ tenants = <<>> /\ results = <<>>

\* C4 (Spec): a fan-out task is invoked at most 3 times, and every invocation
\* but its last raised: an invocation that returned a result, success = false
\* included, is never followed by another.
C4_RetryOnlyAfterRaise ==
    \A i \in DOMAIN tasks :
        /\ Len(tasks[i].log) <= GraphMaxAttempts
        /\ \A k \in 1..(Len(tasks[i].log) - 1) : tasks[i].log[k].status = "raised"

\* The run has ended with a task that returned success = false on its first
\* invocation and a task that was invoked three times.
C4_Witness ==
    /\ orchPc = "completed"
    /\ \E i \in DOMAIN tasks :
          Len(tasks[i].log) = 1 /\ tasks[i].log[1].status = "returned"
          /\ ~tasks[i].log[1].success
    /\ \E i \in DOMAIN tasks : Len(tasks[i].log) = GraphMaxAttempts

\* C5 (Spec), as claimed: a rejected credential exchange is reported in the
\* task's result only after the task was attempted up to the attempt cap.
C5_AuthFailureRetriedToCap ==
    \A i \in DOMAIN tasks :
        tasks[i].status = "completed" /\ tasks[i].result.error = Msg("auth")
            => Len(tasks[i].log) = GraphMaxAttempts

\* C5 (Spec), amended: the invocation in which the credential exchange is
\* rejected returns success = false with the error and is the task's last:
\* the retry policy is not applied to it.
C5_AuthFailureNotRetried ==
    \A i \in DOMAIN tasks : \A k \in DOMAIN tasks[i].log :
        tasks[i].log[k].error = Msg("auth") =>
            /\ k = Len(tasks[i].log)
            /\ tasks[i].log[k].status = "returned" /\ ~tasks[i].log[k].success
            /\ tasks[i].status = "completed"
            /\ tasks[i].result = [tenant_id |-> tasks[i].tenant, success |-> FALSE,
                                  error |-> Msg("auth"), items |-> 0]

\* The run has completed with a task whose only invocation was the one whose
\* credential exchange was rejected.
C5_Witness ==
    /\ orchPc = "completed"
    /\ \E i \in DOMAIN tasks :
          Len(tasks[i].log) = 1 /\ tasks[i].log[1].error = Msg("auth")

ScopeSet(conn) == conn.session.is_admin # Null

\* C7 (SpecTask): on every connection an activity opens, the scope-setting
\* call is the first thing executed and is made once: no statement or commit
\* is issued before it or on a connection whose scope is not set, and the
\* scope is the tenant's for the fan-out activities, admin for the other two.
C7_ScopeFirstAndOnce ==
    \A s \in Slots :
        LET conn == run[s].conn IN
        /\ conn.scopeCalls <= 1
        /\ conn.unscoped = 0
        /\ conn.stmts > 0 => conn.scopeCalls = 1 /\ ScopeSet(conn)
        /\ conn.state # "none" /\ run[s].pc # "scope" => conn.scopeCalls = 1
        /\ ScopeSet(conn) =>
              IF run[s].kind \in FanoutKinds
              THEN Attrs(conn.session) = [tenant_id |-> run[s].tenant, is_admin |-> "0"]
              ELSE conn.session.is_admin = "1"

\* A reindex and a compliance sync have both finished after issuing
\* statements on their connections.
C7_Witness ==
    /\ \E s \in Slots : run[s].kind = "reindex_search" /\ Finished(run[s])
                        /\ run[s].conn.stmts = 1
    /\ \E s \in Slots : run[s].kind = "collect_compliance_data" /\ Finished(run[s])
                        /\ run[s].conn.stmts > 2

\* C8 (SpecSql): once a scope-setting call has completed on a connection,
\* every later scope-setting call on it is rejected and the attributes
\* tenant_id and is_admin stay as that call left them.
C8_ScopeWriteOnce ==
    \A c \in ConnIds :
        sq[c].scoped =>
            /\ Attrs(sq[c].session) = sq[c].scopedAs
            /\ sq[c].last.late => sq[c].last.raised

C10_ClosedExactlyOnce ==
    \A s \in Slots :
        LET conn == run[s].conn IN
        /\ conn.closeCalls <= 1
        /\ conn.state = "closed" <=> conn.closeCalls = 1
        /\ Finished(run[s]) => conn.state # "open"

\* An activity whose scope-setting call failed, one whose upsert failed and
\* one whose registry read failed have each ended with the connection closed.
C10_Witness ==
    /\ \E s \in Slots : Finished(run[s]) /\ run[s].conn.closeCalls = 1
                        /\ run[s].thrown \in {Msg("scope"), Msg("upsert_assessment")}
    /\ \E s \in Slots : Finished(run[s]) /\ run[s].conn.closeCalls = 1
                        /\ run[s].kind = "get_active_tenants"
                        /\ run[s].out.status = "raised"


\* C11 (SpecScores): after any sequence of upsert_compliance_score calls the
\* table holds no row for a key never written and exactly one row for every
\* key written, carrying the current_score and max_score of the most recent
\* call for that key; hence a call for one key changes no other key's rows.
C11_OneRowPerKeyLatestWins ==
    \A k \in ScoreKeys : scores[k] = latest[k]

\* The last call hit an existing row and overwrote its values while another
\* key has a row of its own.
C11_Witness ==
    /\ lastUpsert = "update"
    /\ \E k1, k2 \in ScoreKeys : k1 # k2 /\ scores[k1] # <<>> /\ scores[k2] # <<>>


\* C12 (SpecTask): within a tenant-domain task every token request and every
\* external API fetch completes before the store connection is opened: no
\* fetch is issued on behalf of the task while its connection is open.
C12_FetchesBeforeConnect ==
    \A s \in Slots : run[s].conn.fetches = 0


\* The number of leading answers of the script that carry a retryable status.
RECURSIVE LeadingRetryable(_)
LeadingRetryable(script) ==
    IF script # <<>> /\ Head(script) \in StatusForcelist
    THEN 1 + LeadingRetryable(Tail(script)) ELSE 0

\* C16 (SpecGet): one raw-HTTP GET makes at most 4 attempts in total; after N
\* retryable answers followed by a 200 it returns after exactly N+1 attempts
\* when N+1 <= 4, and when the first 4 answers are all retryable it raises
\* without a fifth attempt.
C16_FourAttemptsInTotal ==
    LET N == LeadingRetryable(responses)
    IN  /\ req.attempts <= 4
        /\ req.pc = "done" /\ N + 1 <= 4 /\ responses[N + 1] = 200
              => req.out = "returned" /\ req.attempts = N + 1
        /\ req.pc = "done" /\ N >= 4
              => req.out = "raised" /\ req.attempts = 4


\* The chain of pages behind endpoint e: the pages reached from its first URL
\* by continuation links, ending at the first page that carries none.
ChainLen(e) ==
    CHOOSE i \in 1..MaxPages :
        ~pages[e][i].next /\ \A j \in 1..(i-1) : pages[e][j].next

ChainEnd(e) == pages[e][ChainLen(e)]

ChainOk(e) == ChainEnd(e).kind = "ok"

ChainUrls(e) == [i \in 1..ChainLen(e) |-> <<e, i>>]

RECURSIVE ChainItems(_, _)
ChainItems(e, i) ==
    IF i > ChainLen(e) THEN <<>>
    ELSE PageItems(e, i, pages[e][i]) \o ChainItems(e, i + 1)

RequestsTo(e) == SelectSeq(call.requests, LAMBDA r : r[1] = e)

Is404(reply) == reply.exc = "HTTPError" /\ reply.status = 404

\* C15 (SpecPages): for the raw-HTTP assessment-list and controls fetches, a
\* 404 from the preferred endpoint makes the alternative be listed and its
\* items returned; a 404 from the alternative too gives an empty list, not an
\* error; any other error from the preferred endpoint is raised to the caller
\* and the alternative is never requested.
C15_NotFoundFallsBack ==
    LET p == ChainEnd("preferred")
        a == ChainEnd("alternative")
    IN  call.pc = "done" /\ call.fn # "get_control_profiles" =>
          /\ Is404(p) /\ ChainOk("alternative") =>
                /\ call.out = "returned"
                /\ call.result = ChainItems("alternative", 1)
          /\ Is404(p) /\ Is404(a) =>
                call.out = "returned" /\ call.result = <<>>
          /\ p.kind = "error" /\ ~Is404(p) =>
                /\ call.out = "raised"
                /\ call.exc = p.exc /\ call.status = p.status
                /\ RequestsTo("alternative") = <<>>

\* get_compliance_assessments met a 404 on the preferred endpoint and returned
\* the items of the alternative's pages.
C15_Witness ==
    /\ call.pc = "done" /\ call.fn = "get_compliance_assessments"
    /\ Is404(ChainEnd("preferred"))
    /\ call.out = "returned" /\ call.result # <<>>
    /\ call.result = ChainItems("alternative", 1)

\* C20 (SpecPages): over a finite chain of pages the paginated fetch requests
\* each page of the chain exactly once, in link order, stops at the first page
\* without a continuation link, and yields the pages' items concatenated in
\* page order, none dropped or duplicated.
C20_PaginateConcatenates ==
    call.pc = "done" =>
        \A e \in Endpoints :
            RequestsTo(e) # <<>> /\ ChainOk(e) =>
                /\ RequestsTo(e) = ChainUrls(e)
                /\ call.out = "returned"
                /\ call.result = ChainItems(e, 1)

\* A chain of more than one page, each with items, has been listed.
C20_Witness ==
    /\ call.pc = "done" /\ call.fn = "get_control_profiles"
    /\ ChainOk("preferred") /\ ChainLen("preferred") > 1
    /\ \A i \in 1..ChainLen("preferred") : pages["preferred"][i].n > 0
    /\ call.result = ChainItems("preferred", 1)
    /\ Len(call.requests) = ChainLen("preferred")


\* The fetch f has been made: its value is settled or it failed the task.
Fetched(f) ==
    fetch.used[f].src # "unset" \/ (fetch.out = "failed" /\ fetch.error = f)

\* C13 (SpecFetch): for each logical fetch, when the typed client returns None
\* or an empty result and the raw-HTTP fallback returns a non-empty result,
\* the task uses the fallback's result and the fetch reports no error.
C13_FallbackResultUsed ==
    \A f \in FetchNames :
        /\ Fetched(f)
        /\ SdkResult(f, world.sdk[f]) \in {"none", "empty"}
        /\ world.token = "ok" /\ world.http[f] = "data"
        => fetch.used[f] = [src |-> "http", val |-> "data"]

\* C14 (SpecFetch): a logical fetch fails the task only if both the typed
\* client's call and the raw-HTTP fallback raised; a fallback that raises
\* after the typed client returned an empty result without raising surfaces
\* no error.
C14_FailsOnlyIfBothRaise ==
    \A f \in FetchNames :
        fetch.out = "failed" /\ fetch.error = f
        => world.sdk[f] = "raise" /\ world.http[f] = "raise"


\* Every attempt the retry policy allows was made and raised.
Exhausted(log, maxAttempts) ==
    Len(log) = maxAttempts /\ \A i \in DOMAIN log : log[i].status = "raised"

\* C17 (Spec): a run ends in failure if and only if the registry load or the
\* reindex failed on all of its attempts; in every other case, whatever the
\* fan-out tasks did, it completes and returns one result per task.
C17_OnlyLoadOrReindexFatal ==
    RunEnded =>
        /\ orchPc = "failed" <=> \/ Exhausted(loadLog, SqlMaxAttempts)
                                 \/ Exhausted(reindexLog, SqlMaxAttempts)
        /\ orchPc = "completed" => Len(results) = Len(tasks)


\* C18 (SpecTask): every fan-out invocation that touches the store does so on
\* a connection it opened itself; no connection object is held by two
\* invocations, and a connection is bound to no tenant but its invocation's,
\* whatever the interleaving of the concurrently running invocations.
C18_OwnConnection ==
    \A s \in Slots :
        /\ run[s].kind \in FanoutKinds /\ run[s].conn.state # "none" =>
              /\ run[s].conn.id # Null
              /\ run[s].conn.session.tenant_id \in {Null, run[s].tenant}
        /\ run[s].conn.stmts + run[s].conn.scopeCalls > 0 => run[s].conn.id # Null
        /\ \A s2 \in Slots \ {s} :
              run[s].conn.id # Null => run[s2].conn.id # run[s].conn.id

\* Two fan-out invocations for different tenants hold open, scoped
\* connections at the same time and both have written.
C18_Witness ==
    \E s, s2 \in Slots :
        /\ s # s2
        /\ run[s].kind \in FanoutKinds /\ run[s2].kind \in FanoutKinds
        /\ run[s].tenant # run[s2].tenant
        /\ run[s].conn.state = "open" /\ run[s2].conn.state = "open"
        /\ run[s].conn.stmts > 0 /\ run[s2].conn.stmts > 0


\* The fan-out task i has made an attempt that raised and is due another.
InRetry(i) == tasks[i].status = "pending" /\ tasks[i].log # <<>>

RECURSIVE FirstNonNull(_, _)
FirstNonNull(d, keys) ==
    CASE keys = <<>> -> Null
      [] d[Head(keys)] \notin {Absent, Null} -> d[Head(keys)]
      [] OTHER -> FirstNonNull(d, Tail(keys))

\* C21 (SpecNormalize): every canonical field of a normalizer's result is the
\* value of the first source spelling, in priority order, whose value is
\* present and non-null, and null when no spelling holds a non-null value.
C21_FirstNonNullWins ==
    norm.pc = "returned" /\ ~norm.raised =>
        \A f \in CanonicalKeys(norm.kind) :
            norm.rec[f] = FirstNonNull(doc, Spellings(norm.kind, f))

\* C22 (SpecNormalize): on every dict over the known source keys, the empty
\* dict and keys mapped to null included, the normalizer does not raise and
\* returns a dict with exactly the canonical keys, each mapped to a value of
\* the source dict, to the empty string or to null.
C22_NormalizerTotal ==
    norm.pc = "returned" =>
        /\ ~norm.raised
        /\ DOMAIN norm.rec = CanonicalKeys(norm.kind)
        /\ \A f \in DOMAIN norm.rec : norm.rec[f] \in KnownKeys \cup {Null, ""}

\* Both normalizers have returned on the empty dict and on a dict that maps
\* a key to null.
C22_Witness ==
    /\ norm.pc = "returned"
    /\ norm.kind = "control"
    /\ doc["displayName"] = Null /\ doc["id"] = Absent
    /\ doc["control_name"] = "control_name"


\* ceil(n / BatchSize)
CeilBatches(n) == (n + BatchSize - 1) \div BatchSize

\* C23 (SpecUpload): when reindex_search returns after reading n documents it
\* has issued exactly ceil(n/1000) upload calls, each with at least one and at
\* most 1000 documents, the first starting at the first document, each next
\* one starting right after the previous one ended and the last ending at
\* document n; for n = 0 it has issued no call and returns indexed 0.
C23_BatchesCoverDocsOnce ==
    upload.pc = "returned" =>
        /\ Len(upload.calls) = CeilBatches(upload.n)
        /\ \A k \in DOMAIN upload.calls :
              /\ upload.calls[k].from <= upload.calls[k].to
              /\ upload.calls[k].to - upload.calls[k].from + 1 <= BatchSize
              /\ upload.calls[k].from = IF k = 1 THEN 1 ELSE upload.calls[k - 1].to + 1
        /\ upload.n > 0 => upload.calls[Len(upload.calls)].to = upload.n
        /\ upload.n = 0 => upload.calls = <<>> /\ upload.indexed = 0

\* A returned reindex of more than one full batch whose last batch is partial.
C23_Witness ==
    /\ upload.pc = "returned"
    /\ upload.n = BatchSize + 1
    /\ Len(upload.calls) = 2

RECURSIVE SumSucceeded(_)
SumSucceeded(calls) ==
    IF calls = <<>> THEN 0
    ELSE calls[Len(calls)].succeeded + SumSucceeded(SubSeq(calls, 1, Len(calls) - 1))

\* C24 (SpecUpload): documents reported as failed stop neither the tally nor
\* the loop: after every upload call that answered, the running total is the
\* number of documents reported as succeeded so far and, unless that was the
\* last batch, the next batch is still to be uploaded; the count returned is
\* that total over all batches.
C24_FailedDocsDoNotAbort ==
    /\ upload.pc = "loop" =>
          /\ upload.total = SumSucceeded(upload.calls)
          /\ upload.i = Len(upload.calls) * BatchSize
    /\ upload.pc = "returned" /\ upload.n > 0 =>
          /\ upload.indexed = SumSucceeded(upload.calls)
          /\ Len(upload.calls) * BatchSize >= upload.n

\* Two batches, documents failed in the first one, and the second one was
\* still uploaded and counted.
C24_Witness ==
    /\ upload.pc = "returned"
    /\ Len(upload.calls) = 2
    /\ upload.calls[1].succeeded = 1
    /\ upload.calls[2].succeeded = BatchSize
    /\ upload.indexed = BatchSize + 1


\* C25 (SpecDays): for every days value that is not an integer in [1, 90],
\* 0 and 91 included, get_secure_scores raises ValueError without having
\* issued a request; for every integer days in [1, 90], 90 included, it goes
\* on to the fetch and never raises ValueError.
C25_DaysValidatedBeforeRequest ==
    LET inRange == /\ scoreCall.days.isInt
                   /\ scoreCall.days.value \in 1..MaxDays
    IN  /\ scoreCall.pc = "raised" /\ ~inRange =>
              scoreCall.exc = "ValueError" /\ scoreCall.requests = 0
        /\ scoreCall.pc \notin {"done", "validate"} /\ ~inRange =>
              scoreCall.pc = "raised"
        /\ scoreCall.pc \notin {"done", "validate"} /\ inRange =>
              /\ scoreCall.exc # "ValueError"
              /\ scoreCall.pc \in {"fetch", "returned", "raised"}
              /\ scoreCall.pc = "returned" => scoreCall.requests > 0

\* days = 90 fetched and returned.
C25_Witness ==
    /\ scoreCall.pc = "returned"
    /\ scoreCall.days = [isInt |-> TRUE, value |-> MaxDays]

\* C28 (SpecKv): over all calls of _get_kv_client in one process, from one
\* thread or from several, at most one vault client is ever constructed and
\* all calls return the same instance.
C28_ConstructedAtMostOnce ==
    /\ Cardinality(kv.constructed) <= 1
    /\ Cardinality(kv.returned) <= 1


\* C26 (SpecTask): in collect_compliance_data the controls of an assessment
\* are fetched and upserted only after that assessment's own upsert has
\* committed on the same connection, and every control row in the store has
\* the row of its assessment next to it.
C26_AssessmentBeforeControls ==
    /\ \A s \in Slots :
          run[s].pc \in {"fetch_controls", "upsert_assessment_control"} =>
              /\ run[s].conn.state = "open"
              /\ run[s].conn.assessed = run[s].todo
              /\ \E r \in store : /\ r.table = "assessments"
                                  /\ r.tenant_id = run[s].tenant
                                  /\ r.key = run[s].todo
    /\ \A c \in store :
          c.table = "assessment_controls" =>
              \E r \in store : /\ r.table = "assessments"
                               /\ r.tenant_id = c.tenant_id
                               /\ r.key = c.key

\* Two compliance tasks of different tenants have each written an
\* assessment's controls.
C26_Witness ==
    /\ \A t \in TenantIds :
          \E c \in store : c.table = "assessment_controls" /\ c.tenant_id = t
    /\ \A s \in Slots : run[s].kind = "collect_compliance_data"
                        /\ run[s].conn.assessed > 0


\* C27 (SpecTask): a fan-out task commits mark_tenant_synced at most once; it
\* has done so when it reaches conn.close() with no exception in flight
\* (credential resolution, the fetches, the scope setting and every upsert
\* succeeded, an empty dataset included), nothing but the close follows it,
\* and a task in which one of those steps raised has not marked the tenant.
C27_MarkedOnceIffAllSucceeded ==
    \A s \in Slots :
        run[s].kind \in FanoutKinds =>
            LET conn == run[s].conn IN
            /\ conn.marks <= 1
            /\ run[s].pc = "close" =>
                  /\ run[s].exc = Null => conn.marks = 1 /\ conn.state = "open"
                  /\ run[s].exc # Null => conn.marks = 0
            /\ conn.marks = 1 => run[s].pc \in {"close", "done"}
            /\ run[s].thrown \notin {Null, Msg("close")} => conn.marks = 0
            /\ Finished(run[s]) =>
                  /\ run[s].out.status = "raised" => conn.marks = 0
                  /\ run[s].out.status = "returned" /\ run[s].thrown = Null =>
                        conn.marks = 1
                  /\ conn.marks = 1 => /\ run[s].thrown \in {Null, Msg("close")}
                                       /\ conn.state = "closed"

\* A task that fetched an empty dataset has marked its tenant and returned
\* success, next to a task that failed in an upsert and has not.
C27_Witness ==
    \E s, u \in Slots :
        /\ run[s].kind \in FanoutKinds /\ Finished(run[s])
        /\ run[s].items = 0 /\ run[s].conn.marks = 1
        /\ run[s].out.result.success
        /\ run[u].kind \in FanoutKinds /\ Finished(run[u])
        /\ run[u].thrown \notin {Null, Msg("close")}
        /\ run[u].conn.stmts > 1 /\ run[u].conn.marks = 0

\* The task in slot s took a step.
Stepped(s) == run'[s] # run[s] /\ run[s].kind \in FanoutKinds

\* C29 (SpecTask): no step takes a committed row out of the store, a failing
\* step of a fan-out task included, and a step of a task changes no row of
\* another tenant; a fan-out task that failed after opening its connection
\* has returned a record with success = false.
C29_EarlierWritesStayCommitted ==
    /\ [][/\ store \subseteq store'
          /\ \A s \in Slots :
                Stepped(s) =>
                    {r \in store' : r.tenant_id # run[s].tenant}
                        = {r \in store : r.tenant_id # run[s].tenant}]_vars
    /\ [](\A s \in Slots :
            /\ run[s].kind \in FanoutKinds /\ Finished(run[s])
            /\ run[s].thrown # Null /\ run[s].conn.state # "none"
            => /\ run[s].out.status = "returned"
               /\ ~run[s].out.result.success)

\* A task that failed in a later upsert has returned success = false while
\* the rows of its earlier upserts are in the store, next to another
\* tenant's rows.
C29_Witness ==
    \E s \in Slots :
        /\ run[s].kind = "collect_tenant_data" /\ Finished(run[s])
        /\ run[s].thrown = Msg("upsert_benchmarks")
        /\ ~run[s].out.result.success
        /\ \E r \in store : r.table = "control_scores" /\ r.tenant_id = run[s].tenant
        /\ \E r \in store : r.tenant_id # run[s].tenant

WritePcs == {"upsert_secure_score", "upsert_control_scores", "upsert_benchmarks",
             "upsert_control_profiles", "upsert_compliance_score",
             "upsert_assessment", "upsert_assessment_control",
             "mark_tenant_synced"}

\* C30 (SpecTask): whenever a fan-out task is at an upsert or at
\* mark_tenant_synced, the tenant id it passes is the one its connection's
\* session was bound to by set_tenant_context, which is the tenant_id of its
\* input record, and the session is not an admin one; this holds in every
\* interleaving of two tasks.
C30_WritesKeyedByOwnTenant ==
    \A s \in Slots :
        run[s].kind \in FanoutKinds /\ run[s].pc \in WritePcs =>
            /\ TargetTenant(run[s]) = run[s].conn.session.tenant_id
            /\ run[s].conn.session.tenant_id = run[s].tenant
            /\ ScopeTenant(run[s]) = run[s].tenant
            /\ run[s].conn.session.is_admin # "1"
            /\ run[s].conn.scopeCalls = 1

\* Two tasks of different tenants are both at a write.
C30_Witness ==
    /\ \A s \in Slots : run[s].kind \in FanoutKinds /\ run[s].pc \in WritePcs
    /\ \E s, u \in Slots : run[s].tenant # run[u].tenant
    /\ \E s \in Slots : run[s].pc = "mark_tenant_synced"

=============================================================================
